---- MODULE Spec2Model ----
(***************************************************************************)
(* Model of the MPO library (Message Passing Object): TypeDef, Message and *)
(* its static Emitted queue, AnySignal / AnySlot endpoints and Link.       *)
(*                                                                         *)
(* The program state is threaded through the operators as a record w (the  *)
(* "world"), so that an operation that calls other operations (a handler   *)
(* that emits, a destructor that deletes Links) is one action.             *)
(***************************************************************************)
EXTENDS Integers, Sequences, FiniteSets, TLC

\* ------------------------------------------------------------------ bounds
\* Number of Link objects that may exist at the same time.
MaxLinks == 2
\* Number of entries the Emitted queue may hold at the same time.
MaxQueue == 2
\* Number of entries the Emitted queue may hold where Links are closed while
\* entries of several Links wait.
MaxDepth == 4
\* The highest maxCount given to Ping::start.
MaxCount == 5
\* The maxCount main gives to Ping::start.
TestCount == 15

\* ------------------------------------------------------------ the objects
Signals == {"s1", "s2"}
Slots == {"r1", "r2"}
\* The addresses a Link may be allocated at.
Links == 1..(Cardinality(Signals) * Cardinality(Slots) * MaxLinks)
Names == {"n1", "n2"}
Null == "null"
NoLink == 0
NoName == ""
\* The Action objects of the program, the names they are constructed with and
\* the name their member Signals and Slots are registered with.
Actions == {"a1", "a2"}
ActionNames == {"A", "B"}
Locals == {"port"}

\* --------------------------------------------------------------- TypeDef
\* The TypeDef objects of the program: main.cpp's Message, MsgA, MsgB and
\* Ball, plus AltA, the TypeDef of another message class that is also named
\* "MsgA" (constructed independently, in another module of the program).
TypeDefs == {"Message", "MsgA", "MsgB", "Ball", "AltA"}

TypeDef_name(t) == IF t = "AltA" THEN "MsgA" ELSE t

TypeDef_parent(t) ==
    CASE t = "Message" -> Null
      [] t = "MsgA" -> "Message"
      [] t = "MsgB" -> "MsgA"
      [] t = "Ball" -> "Message"
      [] t = "AltA" -> "Message"

RECURSIVE WalkFindsName(_, _)
WalkFindsName(self, type) ==
    IF type = Null THEN FALSE
    ELSE IF TypeDef_name(type) = TypeDef_name(self) THEN TRUE
    ELSE WalkFindsName(self, TypeDef_parent(type))

\* Mutant: the walk goes up from this type and looks for the argument's name.
isSameOrSubtypeOf_swapped(self, type) ==
    type # Null /\ WalkFindsName(type, self)

\* TypeDef::isSameOrSubtypeOf: walks the parent chain of the ARGUMENT and
\* compares each name with the name of this type.
isSameOrSubtypeOf(self, type) == WalkFindsName(self, type)

\* Every message class has its own TypeDef (TMsg::Type()) and is named here
\* after it; the TypeDef's parent is the TypeDef of the C++ base class.
ClassParent(c) == TypeDef_parent(c)

RECURSIVE ClassIsA(_, _)
\* c is the class d or derives from it (C++ inheritance, by identity): what
\* dynamic_pointer_cast<d> tests and what Signal<d>::emit accepts.
ClassIsA(c, d) ==
    IF c = Null THEN FALSE
    ELSE IF c = d THEN TRUE
    ELSE ClassIsA(ClassParent(c), d)

\* The message objects of the program and the class of each (main.cpp: mm,
\* ma, ball).
Msgs == {"mm", "ma", "ball"}
ClassOf(m) ==
    CASE m = "mm" -> "Message"
      [] m = "ma" -> "MsgA"
      [] m = "ball" -> "Ball"
      [] m = Null -> Null

\* Template argument of each Signal<TMsg> and Slot<TMsg,...> of the program:
\* the four pairs are the four cases of the choice of the slot function.
SignalType(s) == IF s = "s1" THEN "MsgA" ELSE "Message"
SlotType(r) == IF r = "r1" THEN "Ball" ELSE "Message"

\* The object that owns the Slot (the obj argument of Slot::Slot, bound into
\* the two slot functions): main.cpp constructs every Slot with this.
SlotObj(r) == "this"

\* Address order of the Slot objects (the key order of std::map<AnySlot*,..>).
SlotAddr(r) == IF r = "r1" THEN 1 ELSE 2

\* Address order of the Signal objects.
SignalAddr(s) == IF s = "s1" THEN 1 ELSE 2

\* The addresses at which the Links of the pair (s, r) are allocated.
LinkBlock(s, r) ==
    LET p == (SignalAddr(s) - 1) * Cardinality(Slots) + SlotAddr(r)
    IN ((p - 1) * MaxLinks + 1)..(p * MaxLinks)

\* ------------------------------------------------------------------ state
VARIABLES
    sigType,    \* AnySignal::m_msgType
    slotType,   \* AnySlot::m_msgType
    sigAlive,   \* the AnySignal objects whose destructor has not run
    sigLinks,   \* AnySignal::m_links : slot -> Link (NoLink: no entry)
    sigName,    \* AnySignal::m_name
    signalMap,  \* AnySignal::m_signalMap : name -> signal (Null: no entry)
    slotAlive,  \* the AnySlot objects whose destructor has not run
    slotLinks,  \* AnySlot::m_links : set of Link
    slotName,   \* AnySlot::m_name
    slotMap,    \* AnySlot::m_slotMap : name -> slot (Null: no entry)
    linkAlive,  \* the Link objects that exist (allocated and not deleted)
    linkObj,    \* the fields of the Link at each address (NoObj: none)
    queue,      \* Message::emitted.m_queue, front of the list first; each
                \* entry also carries seq, its rank by time of insertion
                \* among the entries in the queue (1: the oldest)
    lastOp,     \* trace: the last operation called and what it returned
    calls,      \* trace: the slot method invocations the last operation made
    popped,     \* trace: the rank of the entry the last operation extracted
    purged,     \* trace: the number of entries the last operation erased
    made,       \* trace: the number of Links the last operation constructed
    ub,         \* trace: the undefined behaviour the last operation ran into
    crashed,    \* the process has been terminated
    notifier,   \* Message::emitted.m_notify (Null: empty function)
    notified,   \* trace: the notifier calls the last operation made, each
                \* with the callback called and the queue length it saw
    regOrder,   \* history: for each Signal, its connected Slots in the
                \* order in which connect registered them
    actName,    \* Action::m_name (NoName: the object is not constructed)
    actionMap,  \* Action::m_actions : name -> Action (Null: no entry)
    steps,      \* trace: the statements of ~Link the last operation ran,
                \* each with the number of queue entries that referenced
                \* the Link when the statement had run
    ball,       \* the fields of the Ball of main's Action network
    pongs,      \* the Pong actions connected to Ping, in the order of the
                \* map of Ping's output Signal
    pc          \* where main is in the test of the Action network

vars == <<sigType, slotType, sigAlive, sigLinks, sigName, signalMap, slotAlive, slotLinks,
          slotName, slotMap, linkAlive, linkObj, queue, lastOp, calls,
          popped, purged, made, ub, crashed, notifier, notified, regOrder,
          actName, actionMap, steps, ball, pongs, pc>>

\* The program state as one record, at the start of an operation: nothing
\* called, extracted or gone wrong yet, and no allocation refused.
World ==
    [sigType |-> sigType, slotType |-> slotType, sigAlive |-> sigAlive, sigLinks |-> sigLinks, sigName |-> sigName,
     signalMap |-> signalMap, slotAlive |-> slotAlive, slotLinks |-> slotLinks,
     slotName |-> slotName, slotMap |-> slotMap, linkAlive |-> linkAlive,
     linkObj |-> linkObj, queue |-> queue, calls |-> <<>>, popped |-> 0,
     purged |-> 0, made |-> 0, ub |-> {}, ret |-> FALSE, full |-> FALSE,
     notifier |-> notifier, notified |-> <<>>, regOrder |-> regOrder,
     threw |-> FALSE, actName |-> actName, actionMap |-> actionMap,
     steps |-> <<>>, ball |-> ball, pongs |-> pongs]

NoObj == [signal |-> Null, slot |-> Null, fn |-> "none"]
NoOp == [op |-> "none", ret |-> FALSE, threw |-> FALSE]
\* Ball::Ball().
NewBall == [pingCnt |-> 0, pongCnt |-> 0, totCount |-> 0, maxCount |-> 0]

\* The state after the construction of the Signals and Slots, with the types
\* given: nothing is named, connected or queued.
Constructed(st, rt) ==
    /\ sigType = st
    /\ slotType = rt
    /\ sigAlive = Signals
    /\ sigLinks = [s \in Signals |-> [r \in Slots |-> NoLink]]
    /\ sigName = [s \in Signals |-> NoName]
    /\ signalMap = [n \in Names |-> Null]
    /\ slotAlive = Slots
    /\ slotLinks = [r \in Slots |-> {}]
    /\ slotName = [r \in Slots |-> NoName]
    /\ slotMap = [n \in Names |-> Null]
    /\ linkAlive = {}
    /\ linkObj = [l \in Links |-> NoObj]
    /\ queue = <<>>
    /\ lastOp = NoOp
    /\ calls = <<>>
    /\ popped = 0
    /\ purged = 0
    /\ made = 0
    /\ ub = {}
    /\ crashed = FALSE
    /\ notifier = Null
    /\ notified = <<>>
    /\ regOrder = [s \in Signals |-> <<>>]
    /\ actName = [a \in Actions |-> NoName]
    /\ actionMap = [n \in ActionNames |-> Null]
    /\ steps = <<>>
    /\ ball = NewBall

\* main is not in the test of the Action network.
NoNet ==
    /\ pongs = <<>>
    /\ pc = "idle"

Init ==
    /\ Constructed([s \in Signals |-> SignalType(s)], [r \in Slots |-> SlotType(r)])
    /\ NoNet


\* ------------------------------------------------- Message::Emitted queue
Entry(m, l, n) == [msg |-> m, link |-> l, seq |-> n]

\* The ranks by time of insertion after entries have been removed: the order
\* of the remaining entries is kept and the gaps are closed.
Rerank(q) ==
    [i \in 1..Len(q) |->
        [q[i] EXCEPT !.seq = Cardinality({j \in 1..Len(q) : q[j].seq <= q[i].seq})]]

\* The entry that Emitted_get extracts: m_queue.back().
Emitted_back(w) == w.queue[Len(w.queue)]

\* Mutant: the entry is taken from the front of the list.
Emitted_get_front(w) ==
    [w EXCEPT !.queue = Rerank(Tail(@)),
              !.popped = w.queue[1].seq]

\* Message::Emitted::get: throws std::runtime_error on an empty queue, else
\* entry = m_queue.back(); m_queue.pop_back().
Emitted_get(w) ==
    IF w.queue = <<>> THEN [w EXCEPT !.threw = TRUE]
    ELSE [w EXCEPT !.queue = Rerank(SubSeq(@, 1, Len(@) - 1)),
                   !.popped = Emitted_back(w).seq]

\* Mutant: only the first entry of the link found from the front is erased.
Emitted_erase_first(w, l) ==
    LET hit == {i \in 1..Len(w.queue) : w.queue[i].link = l}
        first == CHOOSE i \in hit : \A j \in hit : i <= j
    IN IF hit = {} THEN w
       ELSE [w EXCEPT !.queue = Rerank(SubSeq(@, 1, first - 1)
                                       \o SubSeq(@, first + 1, Len(@))),
                      !.purged = @ + 1]

\* Message::Emitted::erase: removes every entry whose link is l.
Emitted_erase(w, l) ==
    [w EXCEPT !.queue = Rerank(SelectSeq(@, LAMBDA e : e.link # l)),
              !.purged = @ + Len(SelectSeq(w.queue, LAMBDA e : e.link = l))]

\* ------------------------------------------------- AnySignal and AnySlot
\* AnySignal::isConnected: m_links.find(&slot) != m_links.end().
AnySignal_isConnected(w, s, r) == w.sigLinks[s][r] # NoLink

\* AnySignal::connect: m_links[&slot] = &link.
AnySignal_connect(w, s, r, l) ==
    [w EXCEPT !.sigLinks[s][r] = l,
              !.regOrder[s] = IF w.sigLinks[s][r] = NoLink
                              THEN Append(@, r) ELSE @]

\* Mutant: the entry is looked up and left in the map.
AnySignal_disconnect_keep(w, s, r) ==
    [w EXCEPT !.ret = (w.sigLinks[s][r] # NoLink)]

\* AnySignal::disconnect: return m_links.erase(&slot) == 1.
AnySignal_disconnect(w, s, r) ==
    [w EXCEPT !.sigLinks[s][r] = NoLink,
              !.regOrder[s] = SelectSeq(@, LAMBDA x : x # r),
              !.ret = (w.sigLinks[s][r] # NoLink)]

\* AnySlot::connect: m_links.insert(&link).
AnySlot_connect(w, r, l) == [w EXCEPT !.slotLinks[r] = @ \cup {l}]

\* Mutant: the Link is left in the set.
AnySlot_disconnect_keep(w, r, l) == w

\* AnySlot::disconnect: m_links.erase(&link).
AnySlot_disconnect(w, r, l) == [w EXCEPT !.slotLinks[r] = @ \ {l}]

\* AnySignal::unregisterName: m_signalMap.erase(m_name); m_name = "".
AnySignal_unregisterName(w, s) ==
    LET n == w.sigName[s]
        w1 == IF n \in Names THEN [w EXCEPT !.signalMap[n] = Null] ELSE w
    IN [w1 EXCEPT !.sigName[s] = NoName]

\* Mutant: the new name is registered and the old one stays in the map.
AnySignal_setName_keepold(w, s, name) ==
    IF name # NoName
    THEN [w EXCEPT !.sigName[s] = name, !.signalMap[name] = s]
    ELSE [w EXCEPT !.sigName[s] = NoName]

\* Mutant: a name that is in the map keeps the Signal it has (map::insert).
AnySignal_setName_first(w, s, name) ==
    LET w1 == AnySignal_unregisterName(w, s)
    IN IF name = NoName THEN w1
       ELSE IF w1.signalMap[name] # Null THEN [w1 EXCEPT !.sigName[s] = name]
       ELSE [w1 EXCEPT !.sigName[s] = name, !.signalMap[name] = s]

\* AnySignal::setName.
AnySignal_setName(w, s, name) ==
    LET w1 == AnySignal_unregisterName(w, s)
    IN IF name # NoName
       THEN [w1 EXCEPT !.sigName[s] = name, !.signalMap[name] = s]
       ELSE w1

\* AnySignal::get: the Signal found under the name, or nullptr.
AnySignal_get(w, name) ==
    IF name \in Names THEN w.signalMap[name] ELSE Null

\* AnySlot::unregisterName: m_slotMap.erase(m_name); m_name = "".
AnySlot_unregisterName(w, r) ==
    LET n == w.slotName[r]
        w1 == IF n \in Names THEN [w EXCEPT !.slotMap[n] = Null] ELSE w
    IN [w1 EXCEPT !.slotName[r] = NoName]

\* AnySlot::setName.
AnySlot_setName(w, r, name) ==
    LET w1 == AnySlot_unregisterName(w, r)
    IN IF name # NoName
       THEN [w1 EXCEPT !.slotName[r] = name, !.slotMap[name] = r]
       ELSE w1

\* AnySlot::get: the Slot found under the name, or nullptr.
AnySlot_get(w, name) ==
    IF name \in Names THEN w.slotMap[name] ELSE Null

\* ------------------------------------------------------------------ Action
\* m_name + "::" + name: the qualified name of a member of the Action named
\* an. The names n1 and n2 of the directories are the strings "A::port" and
\* "B::port".
Qualify(an, ln) ==
    CASE an = "A" /\ ln = "port" -> "n1"
      [] an = "B" /\ ln = "port" -> "n2"
      [] OTHER -> NoName

\* Mutant: the Action is registered under the name whatever the map holds.
Action_add_overwrite(w, name, a) ==
    [w EXCEPT !.actionMap[name] = a]

\* static Action::add(name, action): throws if the name is in m_actions,
\* registers the Action otherwise.
Action_add(w, name, a) ==
    IF w.actionMap[name] # Null
    THEN [w EXCEPT !.threw = TRUE]
    ELSE [w EXCEPT !.actionMap[name] = a]

\* Action::Action(name): m_name(name), then Action::add(name, *this). When
\* add throws, the object is not constructed.
Action_ctor(w, a, name) ==
    LET w1 == Action_add([w EXCEPT !.actName[a] = name], name, a)
    IN IF w1.threw THEN [w1 EXCEPT !.actName[a] = NoName] ELSE w1

\* Action::add(name, signal): signal.setName(m_name + "::" + name).
Action_addSignal(w, a, name, s) ==
    AnySignal_setName(w, s, Qualify(w.actName[a], name))

\* Action::add(name, slot): slot.setName(m_name + "::" + name).
Action_addSlot(w, a, name, r) ==
    AnySlot_setName(w, r, Qualify(w.actName[a], name))

\* A member function is called on an object whose destructor has run.
Deref(w, alive, obj, kind) ==
    IF obj \in alive THEN w ELSE [w EXCEPT !.ub = @ \cup {kind}]

\* -------------------------------------------------------------------- Link
\* A statement of ~Link has run for the Link l.
Ran(w, l, act) ==
    [w EXCEPT !.steps = Append(@,
        [act |-> act,
         refs |-> Cardinality({i \in 1..Len(w.queue) : w.queue[i].link = l})])]

\* Mutant: the destructor unregisters the Link and leaves its queue entries.
Link_dtor_nopurge(w, l) ==
    LET s == w.linkObj[l].signal
        r == w.linkObj[l].slot
        w2 == AnySignal_disconnect(Deref(w, w.sigAlive, s, "deadSignal"), s, r)
        w3 == AnySlot_disconnect(Deref(w2, w2.slotAlive, r, "deadSlot"), r, l)
    IN [w3 EXCEPT !.linkAlive = @ \ {l}, !.linkObj[l] = NoObj]

\* Mutant: the destructor unregisters the Link first and erases its queue
\* entries last.
Link_dtor_late(w, l) ==
    LET s == w.linkObj[l].signal
        r == w.linkObj[l].slot
        w1 == Ran(AnySignal_disconnect(Deref(w, w.sigAlive, s, "deadSignal"),
                                       s, r), l, "signal")
        w2 == Ran(AnySlot_disconnect(Deref(w1, w1.slotAlive, r, "deadSlot"),
                                     r, l), l, "slot")
        w3 == Ran(Emitted_erase(w2, l), l, "erase")
    IN [w3 EXCEPT !.linkAlive = @ \ {l}, !.linkObj[l] = NoObj]

\* Link::~Link: Message::emitted.erase(this); m_signal->disconnect(*m_slot);
\* m_slot->disconnect(*this). Then the object is gone.
Link_dtor(w, l) ==
    LET s == w.linkObj[l].signal
        r == w.linkObj[l].slot
        w1 == Ran(Emitted_erase(w, l), l, "erase")
        w2 == Ran(AnySignal_disconnect(Deref(w1, w1.sigAlive, s, "deadSignal"),
                                       s, r), l, "signal")
        w3 == Ran(AnySlot_disconnect(Deref(w2, w2.slotAlive, r, "deadSlot"),
                                     r, l), l, "slot")
    IN [w3 EXCEPT !.linkAlive = @ \ {l}, !.linkObj[l] = NoObj]

\* The turns of while( !m_links.empty() ) delete m_links.begin()->second: the
\* Signal's map is emptied from its lowest key. A turn that finds a Link that
\* is deleted already, or that comes after as many turns as Links existed,
\* shows that the first element does not leave the map: the loop does not
\* end ("spin").
RECURSIVE AnySignal_loop(_, _, _)
AnySignal_loop(w, s, n) ==
    LET rs == {r \in Slots : w.sigLinks[s][r] # NoLink}
    IN IF rs = {} THEN w
       ELSE LET r == CHOOSE x \in rs : \A y \in rs : SlotAddr(x) <= SlotAddr(y)
                l == w.sigLinks[s][r]
            IN IF n = 0 \/ l \notin w.linkAlive THEN Ran(w, l, "spin")
               ELSE AnySignal_loop(Link_dtor(w, l), s, n - 1)

\* while( !m_links.empty() ) delete m_links.begin()->second.
AnySignal_deleteLinks(w, s) == AnySignal_loop(w, s, Cardinality(w.linkAlive))

\* AnySignal::~AnySignal: deletes the Links of its map, then unregisters its
\* name. Then the object is gone.
AnySignal_dtor(w, s) ==
    [AnySignal_unregisterName(AnySignal_deleteLinks(w, s), s)
        EXCEPT !.sigAlive = @ \ {s}]

\* The turns of while( !m_links.empty() ) delete *m_links.begin(): the Slot's
\* set is emptied from its lowest address; "spin" as in AnySignal_loop.
RECURSIVE AnySlot_loop(_, _, _)
AnySlot_loop(w, r, n) ==
    LET ls == w.slotLinks[r]
    IN IF ls = {} THEN w
       ELSE LET l == CHOOSE x \in ls : \A y \in ls : x <= y
            IN IF n = 0 \/ l \notin w.linkAlive THEN Ran(w, l, "spin")
               ELSE AnySlot_loop(Link_dtor(w, l), r, n - 1)

\* while( !m_links.empty() ) delete *m_links.begin().
AnySlot_deleteLinks(w, r) == AnySlot_loop(w, r, Cardinality(w.linkAlive))

\* AnySlot::~AnySlot: deletes the Links of its set. Then the object is gone.
AnySlot_dtor(w, r) ==
    [AnySlot_deleteLinks(w, r) EXCEPT !.slotAlive = @ \ {r}]

\* Mutant: the test is made the way the documentation of isSameOrSubtypeOf
\* reads (the Signal's type is the Slot's type or derives from it).
Link_pick_documented(w, s, r, forceStatic) ==
    IF forceStatic \/ isSameOrSubtypeOf_swapped(w.sigType[s], w.slotType[r])
    THEN "static" ELSE "dynamic"

\* Link::Link, the choice of m_slotFunction.
Link_pick(w, s, r, forceStatic) ==
    IF forceStatic \/ isSameOrSubtypeOf(w.sigType[s], w.slotType[r])
    THEN "static" ELSE "dynamic"

\* new Link: the address of the object allocated, NoLink when MaxLinks Links
\* exist. The program compares the addresses of Links for equality only; the
\* allocator of the model gives a Link the lowest free address of the block of
\* its (signal, slot) pair.
NewLink(w, s, r) ==
    LET free == LinkBlock(s, r) \ w.linkAlive
    IN IF Cardinality(w.linkAlive) >= MaxLinks THEN NoLink
       ELSE CHOOSE l \in free : \A k \in free : l <= k

\* Link::Link: binds the signal, the slot and the slot function. Reading the
\* slot's type and functions dereferences the slot.
Link_ctor(w, s, r, forceStatic) ==
    LET l == NewLink(w, s, r)
        w1 == Deref(w, w.slotAlive, r, "deadSlot")
    IN IF l = NoLink THEN [w EXCEPT !.full = TRUE]
       ELSE [w1 EXCEPT !.linkObj[l] = [signal |-> s, slot |-> r,
                                       fn |-> Link_pick(w, s, r, forceStatic)],
                       !.linkAlive = @ \cup {l},
                       !.made = @ + 1]

\* Mutant: a Link is created on every call.
Link_connect_always(w, s, r, forceStatic) ==
    IF s = Null \/ r = Null THEN [w EXCEPT !.ret = FALSE]
    ELSE LET l == NewLink(w, s, r)
             w1 == Link_ctor(w, s, r, forceStatic)
             w2 == AnySignal_connect(w1, s, r, l)
             w3 == AnySlot_connect(w2, r, l)
         IN [w3 EXCEPT !.ret = TRUE]

\* Mutant: the call with a null pointer reports success.
Link_connect_true(w, s, r, forceStatic) ==
    IF s = Null \/ r = Null THEN [w EXCEPT !.ret = TRUE]
    ELSE IF ~AnySignal_isConnected(w, s, r)
    THEN LET l == NewLink(w, s, r)
             w1 == Link_ctor(w, s, r, forceStatic)
             w2 == AnySignal_connect(w1, s, r, l)
             w3 == AnySlot_connect(w2, r, l)
         IN [w3 EXCEPT !.ret = TRUE]
    ELSE [w EXCEPT !.ret = TRUE]

\* Mutant: a call with forceStatic on a connected pair rebinds the Link.
Link_connect_rebind(w, s, r, forceStatic) ==
    IF s = Null \/ r = Null THEN [w EXCEPT !.ret = FALSE]
    ELSE IF ~AnySignal_isConnected(w, s, r)
    THEN LET l == NewLink(w, s, r)
             w1 == Link_ctor(w, s, r, forceStatic)
             w2 == AnySignal_connect(w1, s, r, l)
             w3 == AnySlot_connect(w2, r, l)
         IN [w3 EXCEPT !.ret = TRUE]
    ELSE [w EXCEPT !.ret = TRUE,
                   !.linkObj[w.sigLinks[s][r]].fn =
                       IF forceStatic THEN "static" ELSE @]

\* Link::connect( AnySignal*, AnySlot*, bool ).
Link_connect(w, s, r, forceStatic) ==
    IF s = Null \/ r = Null THEN [w EXCEPT !.ret = FALSE]
    ELSE IF ~AnySignal_isConnected(w, s, r)
    THEN LET l == NewLink(w, s, r)
             w1 == Link_ctor(w, s, r, forceStatic)
             w2 == AnySignal_connect(w1, s, r, l)
             w3 == AnySlot_connect(w2, r, l)
         IN [w3 EXCEPT !.ret = TRUE]
    ELSE [w EXCEPT !.ret = TRUE]

\* Mutant: the Link found for the pair is deleted.
Link_disconnect_delete(w, s, r) ==
    IF s = Null \/ r = Null THEN [w EXCEPT !.ret = FALSE]
    ELSE IF AnySignal_isConnected(w, s, r)
    THEN [Link_dtor(w, w.sigLinks[s][r]) EXCEPT !.ret = TRUE]
    ELSE [w EXCEPT !.ret = FALSE]

\* Link::disconnect( AnySignal*, AnySlot* ):
\* signal && slot && signal->disconnect(*slot).
Link_disconnect(w, s, r) ==
    IF s = Null \/ r = Null THEN [w EXCEPT !.ret = FALSE]
    ELSE AnySignal_disconnect(w, s, r)

\* Link::isConnected( AnySignal*, AnySlot* ).
Link_isConnected(w, s, r) ==
    s # Null /\ r # Null /\ AnySignal_isConnected(w, s, r)

\* Link::connect( signalName, slotName, forceStatic ).
Link_connectN(w, sName, rName, forceStatic) ==
    Link_connect(w, AnySignal_get(w, sName), AnySlot_get(w, rName),
                 forceStatic)

\* Link::disconnect( signalName, slotName ).
Link_disconnectN(w, sName, rName) ==
    Link_disconnect(w, AnySignal_get(w, sName), AnySlot_get(w, rName))

\* Link::isConnected( signalName, slotName ).
Link_isConnectedN(w, sName, rName) ==
    Link_isConnected(w, AnySignal_get(w, sName), AnySlot_get(w, rName))


\* ------------------------------------------------- Message::Emitted::add
\* The callbacks the program registers as message notifier: "count" only
\* counts its calls, "plug" connects Signal s2 to Slot r2, "unplug"
\* disconnects them.
Notifiers == {"count", "plug", "unplug"}

\* m_notify(): the callback runs and sees the queue as it is then.
Notify(w) ==
    LET w1 == [w EXCEPT !.notified =
                   Append(@, [cb |-> w.notifier, len |-> Len(w.queue)])]
    IN CASE w.notifier = "count" -> w1
         [] w.notifier = "plug" ->
              [Link_connect(w1, "s2", "r2", FALSE) EXCEPT !.ret = w.ret]
         [] w.notifier = "unplug" ->
              [Link_disconnect(w1, "s2", "r2") EXCEPT !.ret = w.ret]

\* m_queue.push_front(entry): the new entry is the youngest of the queue.
push_front(w, m, l) ==
    [w EXCEPT !.queue = <<Entry(m, l, Len(w.queue) + 1)>> \o @]

\* Mutant: the entry is appended at the end the entries are extracted from.
Emitted_add_back(w, m, l) ==
    LET w1 == [w EXCEPT !.queue = @ \o <<Entry(m, l, Len(w.queue) + 1)>>]
    IN IF w1.notifier # Null THEN Notify(w1) ELSE w1

\* Mutant: the notifier is called before the entry is queued.
Emitted_add_late(w, m, l) ==
    IF w.notifier # Null THEN push_front(Notify(w), m, l)
    ELSE push_front(w, m, l)

\* Message::Emitted::add: m_queue.push_front(entry); if (m_notify) m_notify().
Emitted_add(w, m, l) ==
    LET w1 == push_front(w, m, l)
    IN IF w1.notifier # Null THEN Notify(w1) ELSE w1

\* Message::Emitted::setMessageNotifier: m_notify = messageNotifier.
setMessageNotifier(w, cb) == [w EXCEPT !.notifier = cb]

\* ------------------------------------------------------- AnySignal::emit
\* The Slots in the key order of std::map<AnySlot*, Link*>.
SlotSeq ==
    CHOOSE sq \in [1..Cardinality(Slots) -> Slots] :
        \A i, j \in 1..Cardinality(Slots) :
            i < j => SlotAddr(sq[i]) < SlotAddr(sq[j])

RECURSIVE emit_from(_, _, _, _)
\* The loop of AnySignal::emit from the i-th key on. The iterator walks the
\* map as it is when it advances; advancing from an entry that the notifier
\* has erased meanwhile is undefined.
emit_from(w, s, m, i) ==
    IF i > Len(SlotSeq) THEN w
    ELSE LET r == SlotSeq[i]
             w1 == Emitted_add(w, m, w.sigLinks[s][r])
         IN IF w.sigLinks[s][r] = NoLink THEN emit_from(w, s, m, i + 1)
            ELSE IF w1.sigLinks[s][r] = NoLink
            THEN emit_from([w1 EXCEPT !.ub = @ \cup {"badIter"}], s, m, i + 1)
            ELSE emit_from(w1, s, m, i + 1)

\* Mutant: the loop stops after the first Link.
AnySignal_emit_first(w, s, m) ==
    LET rs == {r \in Slots : w.sigLinks[s][r] # NoLink}
        r == CHOOSE x \in rs : \A y \in rs : SlotAddr(x) <= SlotAddr(y)
    IN IF rs = {} THEN w ELSE Emitted_add(w, m, w.sigLinks[s][r])

RECURSIVE emit_sync_from(_, _, _, _)
emit_sync_from(w, s, m, i) ==
    IF i > Len(SlotSeq) THEN w
    ELSE LET r == SlotSeq[i]
             l == w.sigLinks[s][r]
         IN IF l = NoLink THEN emit_sync_from(w, s, m, i + 1)
            ELSE emit_sync_from(
                    [w EXCEPT !.calls = Append(@, [slot |-> r, msg |-> m,
                                                   link |-> l,
                                                   cast |-> w.linkObj[l].fn])],
                    s, m, i + 1)

\* Mutant: the slot function of every Link is called at once and nothing is
\* queued.
AnySignal_emit_sync(w, s, m) == emit_sync_from(w, s, m, 1)

\* Mutant: the entry (msg, nullptr) that emit starts from is queued when the
\* Signal has no Link.
AnySignal_emit_null(w, s, m) ==
    IF \A r \in Slots : w.sigLinks[s][r] = NoLink
    THEN Emitted_add(w, m, NoLink)
    ELSE emit_from(w, s, m, 1)

\* AnySignal::emit: one Emitted::add per entry of m_links.
AnySignal_emit(w, s, m) == emit_from(w, s, m, 1)

\* ------------------------------------------------- the slot functions
\* What a slot method may do with the message and the Link it is given:
\* nothing, delete the Link, or emit the message on one of the Signals.
HandlerActs ==
    {[kind |-> "none", sig |-> Null], [kind |-> "close", sig |-> Null]}
        \cup {[kind |-> "emit", sig |-> s] : s \in Signals}

\* The slot method of slot r can do h: it can emit its TMsg::Ptr argument on
\* a Signal<U> only if TMsg is U or derives from it.
HandlerCan(w, r, l, h) ==
    CASE h.kind = "none" -> TRUE
      [] h.kind = "close" -> l \in w.linkAlive
      [] h.kind = "emit" -> /\ h.sig \in w.sigAlive
                            /\ ClassIsA(w.slotType[r], w.sigType[h.sig])

\* Mutant: a slot method that closes the Link leaves the entries of the Link
\* in the queue.
SlotMethod_unhook(w, r, m, l, cast, h) ==
    LET w1 == [w EXCEPT !.calls = Append(@, [slot |-> r, msg |-> m,
                                             link |-> l, cast |-> cast])]
    IN CASE h.kind = "none" -> w1
         [] h.kind = "close" -> Link_dtor_nopurge(w1, l)
         [] h.kind = "emit" -> AnySignal_emit(w1, h.sig, m)

\* (obj->*TMethod)(m, link): the slot method of slot r runs.
SlotMethod(w, r, m, l, cast, h) ==
    LET w1 == [w EXCEPT !.calls = Append(@, [slot |-> r, msg |-> m,
                                             link |-> l, cast |-> cast])]
    IN CASE h.kind = "none" -> w1
         [] h.kind = "close" -> Link_dtor(w1, l)
         [] h.kind = "emit" -> AnySignal_emit(w1, h.sig, m)

\* Mutant: the method is called without the test of the cast.
dynamicCastFunction_notest(w, r, m, l, h) ==
    IF m # Null /\ SlotObj(r) # Null
    THEN SlotMethod(w, r, m, l, "dynamic", h)
    ELSE w

\* Slot::dynamicCastFunction: the method is called if the dynamic cast of the
\* message to TMsg succeeds.
dynamicCastFunction(w, r, m, l, h) ==
    IF ClassIsA(ClassOf(m), w.slotType[r]) /\ SlotObj(r) # Null
    THEN SlotMethod(w, r, m, l, "dynamic", h)
    ELSE w

\* Mutant: the method is called only if the message is a TMsg.
staticCastFunction_tested(w, r, m, l, h) ==
    IF ClassIsA(ClassOf(m), w.slotType[r]) /\ SlotObj(r) # Null
    THEN SlotMethod(w, r, m, l, "static", h)
    ELSE w

\* Slot::staticCastFunction: the method is called with the message cast to
\* TMsg without a test; the cast is undefined if the message is no TMsg.
staticCastFunction(w, r, m, l, h) ==
    LET w1 == IF ClassIsA(ClassOf(m), w.slotType[r]) THEN w
              ELSE [w EXCEPT !.ub = @ \cup {"badCast"}]
    IN IF m # Null /\ SlotObj(r) # Null
       THEN SlotMethod(w1, r, m, l, "static", h)
       ELSE w

\* Link::forward: m_slotFunction(msg, this). The function was copied from the
\* slot when the Link was constructed and calls the object that owns the slot.
Link_forward(w, l, m, h) ==
    LET r == w.linkObj[l].slot
        w1 == Deref(Deref(w, w.linkAlive, l, "deadLink"),
                    w.slotAlive, r, "deadSlot")
    IN IF w.linkObj[l].fn = "static"
       THEN staticCastFunction(w1, r, m, l, h)
       ELSE dynamicCastFunction(w1, r, m, l, h)

\* Mutant: the entry is forwarded and left in the queue.
processNext_peek(w, h) ==
    IF w.queue = <<>> THEN [w EXCEPT !.ret = FALSE]
    ELSE LET entry == Emitted_back(w)
             w1 == [w EXCEPT !.popped = entry.seq]
             w2 == IF entry.link # NoLink
                   THEN Link_forward(w1, entry.link, entry.msg, h)
                   ELSE w1
         IN [w2 EXCEPT !.ret = (w2.queue # <<>>)]

\* Mutant: the value returned is computed before the entry is forwarded.
processNext_early(w, h) ==
    IF w.queue = <<>> THEN [w EXCEPT !.ret = FALSE]
    ELSE LET entry == Emitted_back(w)
             w1 == Emitted_get(w)
             w2 == IF entry.link # NoLink
                   THEN Link_forward(w1, entry.link, entry.msg, h)
                   ELSE w1
         IN [w2 EXCEPT !.ret = (w1.queue # <<>>)]

\* Mutant: get is called without the test of empty().
processNext_nocheck(w, h) ==
    LET w1 == Emitted_get(w)
    IN IF w1.threw THEN w1
       ELSE LET entry == Emitted_back(w)
                w2 == IF entry.link # NoLink
                      THEN Link_forward(w1, entry.link, entry.msg, h)
                      ELSE w1
            IN [w2 EXCEPT !.ret = (w2.queue # <<>>)]

\* Message::Emitted::processNext.
processNext(w, h) ==
    IF w.queue = <<>> THEN [w EXCEPT !.ret = FALSE]
    ELSE LET entry == Emitted_back(w)
             w1 == Emitted_get(w)
             w2 == IF entry.link # NoLink
                   THEN Link_forward(w1, entry.link, entry.msg, h)
                   ELSE w1
         IN IF w1.threw THEN w1
            ELSE [w2 EXCEPT !.ret = (w2.queue # <<>>)]

\* The slot the head entry is for (Null if there is none).
HeadSlot(w) ==
    IF w.queue = <<>> \/ Emitted_back(w).link = NoLink THEN Null
    ELSE w.linkObj[Emitted_back(w).link].slot

\* AnySlot::operator(): m_dynamicCastFunction(msg, nullptr).
AnySlot_call(w, r, m, h) == dynamicCastFunction(w, r, m, NoLink, h)

\* slot.getStaticCastFunction()(msg, nullptr).
AnySlot_callStatic(w, r, m, h) == staticCastFunction(w, r, m, NoLink, h)

\* ---------------------------------------------------------------- actions
\* The model's bounds on what is ever allocated.
InBounds(w) ==
    /\ ~w.full
    /\ Len(w.queue) <= MaxQueue

\* The state w becomes the state of the program.
Applied(w, op) ==
    /\ UNCHANGED <<sigType, slotType>>
    /\ sigAlive' = w.sigAlive
    /\ sigLinks' = w.sigLinks
    /\ sigName' = w.sigName
    /\ signalMap' = w.signalMap
    /\ slotAlive' = w.slotAlive
    /\ slotLinks' = w.slotLinks
    /\ slotName' = w.slotName
    /\ slotMap' = w.slotMap
    /\ linkAlive' = w.linkAlive
    /\ linkObj' = w.linkObj
    /\ queue' = w.queue
    /\ calls' = w.calls
    /\ popped' = w.popped
    /\ purged' = w.purged
    /\ made' = w.made
    /\ ub' = w.ub
    /\ notifier' = w.notifier
    /\ notified' = w.notified
    /\ regOrder' = w.regOrder
    /\ actName' = w.actName
    /\ actionMap' = w.actionMap
    /\ steps' = w.steps
    /\ ball' = w.ball
    /\ lastOp' = [op |-> op, ret |-> w.ret, threw |-> w.threw]
    /\ crashed' = FALSE

\* The operation op ends in the state w.
Commit(w, op) ==
    /\ ~crashed
    /\ InBounds(w)
    /\ Applied(w, op)
    /\ UNCHANGED <<pongs, pc>>

\* Link::connect(signal, slot, forceStatic) with pointers.
Connect(s, r, forceStatic) ==
    Commit(Link_connect(World, s, r, forceStatic), "connect")

\* Link::disconnect(signal, slot) with pointers.
Disconnect(s, r) ==
    Commit(Link_disconnect(World, s, r), "disconnect")

\* Link::connect(signalName, slotName, forceStatic).
ConnectN(a, b, forceStatic) ==
    Commit(Link_connectN(World, a, b, forceStatic), "connectN")

\* Link::disconnect(signalName, slotName).
DisconnectN(a, b) ==
    Commit(Link_disconnectN(World, a, b), "disconnectN")

\* signal.setName(name).
SetSignalName(s, name) ==
    Commit(AnySignal_setName(World, s, name), "setName")

\* slot.setName(name).
SetSlotName(r, name) ==
    Commit(AnySlot_setName(World, r, name), "setName")

\* Signal<TMsg>::emit(msg): msg is a TMsg::Ptr.
Emit(s, m) ==
    /\ m = Null \/ ClassIsA(ClassOf(m), sigType[s])
    /\ Commit(AnySignal_emit(World, s, m), "emit")

\* Message::processNext().
ProcessNext(h) ==
    /\ HeadSlot(World) # Null => HandlerCan(Emitted_get(World), HeadSlot(World),
                                            Emitted_back(World).link, h)
    /\ queue = <<>> => h.kind = "none"
    /\ Commit(processNext(World, h), "processNext")

\* delete link.
DeleteLink(l) ==
    Commit(Link_dtor(World, l), "delete")

\* slot(msg): the direct call of a Slot.
Invoke(r, m, h) ==
    /\ HandlerCan(World, r, NoLink, h)
    /\ Commit(AnySlot_call(World, r, m, h), "invoke")

\* Message::emitted.get(entry).
EmittedGet ==
    Commit(Emitted_get(World), "get")

\* Message::emitted.setMessageNotifier(cb).
SetNotifier(cb) ==
    Commit(setMessageNotifier(World, cb), "setNotifier")

\* slot.getStaticCastFunction()(msg, nullptr).
InvokeStatic(r, m, h) ==
    /\ HandlerCan(World, r, NoLink, h)
    /\ Commit(AnySlot_callStatic(World, r, m, h), "invokeStatic")

\* The Signal goes out of scope or is deleted.
DestroySignal(s) ==
    Commit(AnySignal_dtor(World, s), "destroySignal")

\* The Slot goes out of scope or is deleted.
DestroySlot(r) ==
    Commit(AnySlot_dtor(World, r), "destroySlot")

\* new TAction(name): the construction of an Action object.
NewAction(a, name) ==
    /\ actName[a] = NoName
    /\ Commit(Action_ctor(World, a, name), "newAction")

\* add(name, signal) in a member function of the Action a.
AddSignal(a, name, s) ==
    /\ actName[a] # NoName
    /\ Commit(Action_addSignal(World, a, name, s), "addSignal")

\* add(name, slot) in a member function of the Action a.
AddSlot(a, name, r) ==
    /\ actName[a] # NoName
    /\ Commit(Action_addSlot(World, a, name, r), "addSlot")

\* ------------------------------------------------- main's Action network
\* The Links of the network, by the Action of the output Signal and the
\* Action of the input Slot they connect: Ping::output to Pong::input,
\* Pong::output to Ping::input, and the same with Pong2.
NetLinks ==
    <<[sig |-> "Ping", slot |-> "Pong"], [sig |-> "Pong", slot |-> "Ping"],
      [sig |-> "Ping", slot |-> "Pong2"], [sig |-> "Pong2", slot |-> "Ping"]>>

NetLink(a, b) ==
    CHOOSE l \in 1..Len(NetLinks) : NetLinks[l] = [sig |-> a, slot |-> b]

\* m_output.emit(ball) in the Action a: one Emitted::add for each Link of the
\* map of a's output Signal, from the i-th on.
RECURSIVE Net_emit_from(_, _, _)
Net_emit_from(w, a, i) ==
    IF a # "Ping"
    THEN Emitted_add(w, "ball", NetLink(a, "Ping"))
    ELSE IF i > Len(w.pongs) THEN w
    ELSE Net_emit_from(Emitted_add(w, "ball", NetLink("Ping", w.pongs[i])),
                       a, i + 1)

Net_emit(w, a) == Net_emit_from(w, a, 1)

\* Ping::receive: ++pingCnt; if( totCount++ < maxCount ) m_output.emit(ball).
Ping_receive(w) ==
    LET w1 == [w EXCEPT !.ball.pingCnt = @ + 1, !.ball.totCount = @ + 1]
    IN IF w.ball.totCount < w.ball.maxCount THEN Net_emit(w1, "Ping") ELSE w1

\* Mutant: Pong sends the ball on without the test of totCount.
Pong_receive_always(w, a) ==
    Net_emit([w EXCEPT !.ball.pongCnt = @ + 1], a)

\* Pong::receive: ++pongCnt; if( totCount < maxCount ) m_output.emit(ball).
Pong_receive(w, a) ==
    LET w1 == [w EXCEPT !.ball.pongCnt = @ + 1]
    IN IF w.ball.totCount < w.ball.maxCount THEN Net_emit(w1, a) ELSE w1

\* Ping::start: sets maxCount, clears the counters and calls receive(ball).
Ping_start(w, maxCount) ==
    Ping_receive([w EXCEPT !.ball = [NewBall EXCEPT !.maxCount = maxCount]])

\* Mutant: processNext returns true whatever is left in the queue.
Net_processNext_true(w) ==
    IF w.queue = <<>> THEN [w EXCEPT !.ret = TRUE]
    ELSE LET a == NetLinks[Emitted_back(w).link].slot
             w1 == Emitted_get(w)
             w2 == IF a = "Ping" THEN Ping_receive(w1) ELSE Pong_receive(w1, a)
         IN [w2 EXCEPT !.ret = TRUE]

\* Message::processNext in the network: the entry extracted is forwarded to
\* the receive method of the Action of the Link's Slot.
Net_processNext(w) ==
    IF w.queue = <<>> THEN [w EXCEPT !.ret = FALSE]
    ELSE LET a == NetLinks[Emitted_back(w).link].slot
             w1 == Emitted_get(w)
             w2 == IF a = "Ping" THEN Ping_receive(w1) ELSE Pong_receive(w1, a)
         IN [w2 EXCEPT !.ret = (w2.queue # <<>>)]

\* ping->start(ball, maxCount), followed by the loop.
NetStart(maxCount) ==
    /\ pc = "ready"
    /\ ~crashed
    /\ Applied(Ping_start(World, maxCount), "start")
    /\ pc' = "loop"
    /\ UNCHANGED pongs

\* while( Message::processNext() ); one turn of the loop.
NetLoop ==
    /\ pc = "loop"
    /\ ~crashed
    /\ Applied(Net_processNext(World), "processNext")
    /\ pc' = IF Net_processNext(World).ret THEN "loop" ELSE "done"
    /\ UNCHANGED pongs

\* new Pong("Pong2") and its two Link::connect: Pong2's Slot is before or
\* after Pong's in the map of Ping's output Signal, depending on where the
\* objects are allocated.
NetAddPong2 ==
    /\ pc = "done"
    /\ pongs = <<"Pong">>
    /\ pongs' \in {<<"Pong", "Pong2">>, <<"Pong2", "Pong">>}
    /\ pc' = "ready"
    /\ UNCHANGED <<sigType, slotType, sigAlive, sigLinks, sigName, signalMap,
                   slotAlive, slotLinks, slotName, slotMap, linkAlive, linkObj,
                   queue, lastOp, calls, popped, purged, made, ub, crashed,
                   notifier, notified, regOrder, actName, actionMap, steps,
                   ball>>

\* Undefined behaviour has occurred: the process may be terminated.
Crash ==
    /\ ~crashed
    /\ ub # {}
    /\ crashed' = TRUE
    /\ UNCHANGED <<sigType, slotType, sigAlive, sigLinks, sigName, signalMap, slotAlive,
                   slotLinks, slotName, slotMap, linkAlive, linkObj, queue,
                   lastOp, calls, popped, purged, made, ub, notifier,
                   notified, regOrder, actName, actionMap, steps, ball,
                   pongs, pc>>

\* The messages the program emits on its Signals.
Emitted == {"ma", "ball"}

\* The Link and queue operations on the constructed Signals and Slots.
Next ==
    \/ \E s \in sigAlive, r \in slotAlive : Connect(s, r, FALSE)
    \/ \E s \in sigAlive, r \in slotAlive : Disconnect(s, r)
    \/ \E s \in sigAlive, m \in Emitted : Emit(s, m)
    \/ \E h \in HandlerActs : ProcessNext(h)
    \/ \E l \in linkAlive : DeleteLink(l)
    \/ Crash

Spec == Init /\ [][Next]_vars

\* The names the program gives to its endpoints, and the names it looks up:
\* a registered name, a name that is never registered, and the empty name.
GivenNames == {"n1", NoName}
LookupNames == Names \cup {NoName}

\* Connections made and removed through pointers and through the directories
\* of names.
NextNames ==
    \/ \E s \in Signals, n \in GivenNames : SetSignalName(s, n)
    \/ \E n \in GivenNames : SetSlotName("r1", n)
    \/ \E a, b \in LookupNames : ConnectN(a, b, FALSE)
    \/ \E a, b \in LookupNames : DisconnectN(a, b)
    \/ \E s \in Signals \cup {Null}, r \in Slots \cup {Null} :
          Connect(s, r, FALSE)
    \/ \E s \in Signals \cup {Null}, r \in Slots \cup {Null} :
          Disconnect(s, r)
    \/ \E l \in linkAlive : DeleteLink(l)

SpecNames == Init /\ [][NextNames]_vars

\* Signal s1 and Slot r1 declared with any two of the types.
InitPick ==
    /\ \E e, t \in TypeDefs :
        Constructed([s \in Signals |-> IF s = "s1" THEN e ELSE SignalType(s)],
                    [r \in Slots |-> IF r = "r1" THEN t ELSE SlotType(r)])
    /\ NoNet

\* Links constructed, with and without forceStatic, and deleted.
NextPick ==
    \/ \E s \in Signals, r \in Slots, f \in BOOLEAN : Connect(s, r, f)
    \/ \E l \in linkAlive : DeleteLink(l)

SpecPick == InitPick /\ [][NextPick]_vars


\* ------------------------------------------------------------ properties
\* The program state that the operations read and write (not the trace).
core == <<sigType, slotType, sigAlive, sigLinks, sigName, signalMap,
          slotAlive, slotLinks, slotName, slotMap, linkAlive, linkObj, queue,
          notifier, actName, actionMap>>

\* The Slots the Signal s is connected to.
ConnectedTo(s) == {r \in Slots : sigLinks[s][r] # NoLink}

\* The message m can be cast to the type of slot r.
Accepts(r, m) == ClassIsA(ClassOf(m), slotType[r])

\* C1: cancellation purge. In every state no queue entry references a Link
\* that has been destroyed, and no operation has forwarded a message through
\* a destroyed Link (the fault a dangling entry would cause in processNext).
C1_CancellationPurge ==
    /\ \A i \in 1..Len(queue) : queue[i].link \in linkAlive
    /\ "deadLink" \notin ub

\* A Link has just been deleted, entries of it have been purged and other
\* entries remain to be drained.
C1_Witness ==
    /\ lastOp.op = "delete"
    /\ purged > 0
    /\ queue # <<>>

\* C2: FIFO. The list holds the entries youngest first, so that the entry at
\* the back is the oldest of the queue, and every entry extracted was the
\* oldest entry of the queue (rank 1), whatever Signal queued it; entries
\* queued by a slot method during a dispatch are the youngest.
C2_Fifo ==
    /\ \A i \in 1..Len(queue) : queue[i].seq = Len(queue) - i + 1
    /\ popped \in {0, 1}

\* processNext has delivered the oldest entry, emitted by one Signal, while
\* an entry emitted later by the other Signal waits.
C2_Witness ==
    /\ lastOp.op = "processNext"
    /\ popped = 1
    /\ Len(calls) = 1
    /\ queue # <<>>
    /\ calls[1].link \in linkAlive
    /\ queue[Len(queue)].link \in linkAlive
    /\ linkObj[calls[1].link].signal # linkObj[queue[Len(queue)].link].signal

\* C3: deferred delivery. emit calls no slot method: the slot methods run in
\* processNext (or in a direct call of the Slot) only.
C3_Deferred ==
    /\ lastOp.op = "emit" => calls = <<>>
    /\ calls # <<>> => lastOp.op \in {"processNext", "invoke"}

\* emit has queued entries and no slot method has run.
C3_Witness ==
    /\ lastOp.op = "emit"
    /\ Len(queue) = 2
    /\ calls = <<>>

\* C4: fan-out count. One emit of m on a Signal connected to N Slots puts N
\* entries in front of the queue, one per connected Slot, all with the message
\* m and the Link of the pair, and leaves the older entries as they were; and
\* processNext extracts one entry and, if the message is of the type the Slot
\* accepts, calls the slot method of the entry's Slot exactly once with the
\* entry's message.
C4_FanOut ==
    [][/\ \A s \in Signals, m \in Msgs :
            lastOp'.op = "emit" /\ Emit(s, m) =>
                LET n == Cardinality(ConnectedTo(s))
                IN /\ Len(queue') = Len(queue) + n
                   /\ \A r \in ConnectedTo(s) :
                         Cardinality({i \in 1..n :
                             /\ queue'[i].msg = m
                             /\ queue'[i].link = sigLinks[s][r]}) = 1
                   /\ \A i \in 1..Len(queue) :
                         /\ queue'[n + i].msg = queue[i].msg
                         /\ queue'[n + i].link = queue[i].link
       /\ \A h \in HandlerActs :
            lastOp'.op = "processNext" /\ queue # <<>> /\ ProcessNext(h) =>
                LET e == queue[Len(queue)]
                    r == linkObj[e.link].slot
                IN /\ Len(calls') <= 1
                   /\ h.kind = "none" => Len(queue') = Len(queue) - 1
                   /\ Accepts(r, e.msg) =>
                         /\ Len(calls') = 1
                         /\ calls'[1].slot = r
                         /\ calls'[1].msg = e.msg
                         /\ calls'[1].link = e.link
      ]_vars

\* One emit on a Signal connected to two Slots has queued two entries with
\* the same message, one for each Slot.
C4_Witness ==
    /\ lastOp.op = "emit"
    /\ Len(queue) = 2
    /\ queue[1].msg = queue[2].msg
    /\ queue[1].link \in linkAlive /\ queue[2].link \in linkAlive
    /\ linkObj[queue[1].link].signal = linkObj[queue[2].link].signal
    /\ linkObj[queue[1].link].slot # linkObj[queue[2].link].slot
    /\ Cardinality(ConnectedTo(linkObj[queue[1].link].signal)) = 2

\* C5: when disconnect(signal, slot) returns true, the Link of the pair is
\* destroyed: it is in neither the Signal's map nor the Slot's set, and no
\* queue entry references it.
C5_DisconnectDestroys ==
    [][\A s \in Signals, r \in Slots :
          lastOp'.op = "disconnect" /\ lastOp'.ret /\ Disconnect(s, r) =>
              LET l == sigLinks[s][r]
              IN /\ sigLinks'[s][r] = NoLink
                 /\ l \notin slotLinks'[r]
                 /\ l \notin linkAlive'
                 /\ \A i \in 1..Len(queue') : queue'[i].link # l
      ]_vars

\* C7: idempotent connect. connect(E, R) on live endpoints returns true and
\* leaves the pair connected; on a pair that is not connected it constructs
\* exactly one Link, of that pair; on a connected pair it changes nothing.
C7_IdempotentConnect ==
    [][\A s \in Signals, r \in Slots :
          lastOp'.op = "connect" /\ Connect(s, r, FALSE) =>
              /\ lastOp'.ret
              /\ sigLinks'[s][r] # NoLink
              /\ IF sigLinks[s][r] # NoLink
                 THEN UNCHANGED core /\ made' = 0
                 ELSE /\ made' = 1
                      /\ \E l \in Links \ linkAlive :
                            /\ linkAlive' = linkAlive \cup {l}
                            /\ linkObj'[l].signal = s
                            /\ linkObj'[l].slot = r
                            /\ sigLinks'[s][r] = l
      ]_vars

\* connect has been called on a pair that was connected already: it has
\* returned true and constructed no Link.
C7_Witness ==
    /\ lastOp.op = "connect"
    /\ lastOp.ret
    /\ made = 0
    /\ linkAlive # {}


\* The messages handed to the Signals and Slots: a Message, a Ball and the
\* null Message::Ptr.
CastMsgs == {"mm", "ball", Null}

\* What the slot method does when a Slot is called directly: nothing, or it
\* emits the message on the Signal of Message.
CastActs == {h \in HandlerActs : h.kind = "none" \/ h.sig = "s2"}

\* Messages emitted, dispatched, and handed to the Slots directly.
NextCast ==
    \/ \E s \in Signals, r \in Slots : Connect(s, r, FALSE)
    \/ \E s \in Signals, m \in CastMsgs : Emit(s, m)
    \/ \E h \in HandlerActs : ProcessNext(h)
    \/ \E r \in Slots, m \in CastMsgs, h \in CastActs : Invoke(r, m, h)
    \/ \E r \in Slots, m \in CastMsgs, h \in CastActs : InvokeStatic(r, m, h)
    \/ Crash

SpecCast == Init /\ [][NextCast]_vars

\* The queue used directly and with a message notifier.
NextQueue ==
    \/ \E s \in Signals, r \in Slots : Connect(s, r, FALSE)
    \/ \E s \in Signals, m \in Emitted : Emit(s, m)
    \/ \E h \in CastActs : ProcessNext(h)
    \/ \E cb \in Notifiers \cup {Null} : SetNotifier(cb)
    \/ EmittedGet
    \/ Crash

SpecQueue == Init /\ [][NextQueue]_vars

\* The name resolves in the directory.
Resolves(map, name) == name \in DOMAIN map /\ map[name] # Null

\* C6: disconnect truth. disconnect(E, R) returns true if and only if E and R
\* were connected just before the call, and isConnected(E, R) is false just
\* after it, for the call with pointers and for the call with names.
C6_DisconnectTruth ==
    [][/\ \A s \in Signals \cup {Null}, r \in Slots \cup {Null} :
            lastOp'.op = "disconnect" /\ Disconnect(s, r) =>
                /\ lastOp'.ret <=> Link_isConnected(World, s, r)
                /\ ~Link_isConnected(World', s, r)
       /\ \A a, b \in LookupNames :
            lastOp'.op = "disconnectN" /\ DisconnectN(a, b) =>
                /\ lastOp'.ret <=> Link_isConnectedN(World, a, b)
                /\ ~Link_isConnectedN(World', a, b)
      ]_vars

\* A disconnect by names has found the pair connected and returned true.
C6_Witness ==
    /\ lastOp.op = "disconnectN"
    /\ lastOp.ret
    /\ linkAlive # {}

\* C8: connect returns false exactly when the signal or the slot is absent (a
\* null pointer, or a name that is not in the directory); it then creates no
\* Link and changes neither the endpoints, nor the directories, nor the queue.
C8_ConnectFailure ==
    [][/\ \A s \in Signals \cup {Null}, r \in Slots \cup {Null} :
            lastOp'.op = "connect" /\ Connect(s, r, FALSE) =>
                /\ ~lastOp'.ret <=> (s = Null \/ r = Null)
                /\ ~lastOp'.ret => UNCHANGED core /\ made' = 0
       /\ \A a, b \in LookupNames :
            lastOp'.op = "connectN" /\ ConnectN(a, b, FALSE) =>
                /\ ~lastOp'.ret <=>
                      (~Resolves(signalMap, a) \/ ~Resolves(slotMap, b))
                /\ ~lastOp'.ret => UNCHANGED core /\ made' = 0
      ]_vars

\* A connect by names has failed on a name that does not resolve, while a
\* Signal and a Slot are registered.
C8_Witness ==
    /\ lastOp.op = "connectN"
    /\ ~lastOp.ret
    /\ signalMap["n1"] # Null
    /\ slotMap["n1"] # Null

\* The types are identified by their names, as the code compares them.
SameType(e, t) == TypeDef_name(e) = TypeDef_name(t)

\* The names of the strict ancestors of the type t.
AncestorNames(t) ==
    {TypeDef_name(a) : a \in {x \in TypeDefs : x # t /\ ClassIsA(t, x)}}

\* The slot function of the Link that connects s to r.
BoundFn(s, r) == linkObj[sigLinks[s][r]].fn

C10_MidToBaseStatic ==
    [][/\ lastOp'.op = "connect"
       /\ sigType["s1"] = "MsgA"
       /\ slotType["r1"] = "Message"
       /\ sigLinks["s1"]["r1"] = NoLink
       /\ Connect("s1", "r1", FALSE)
       => BoundFn("s1", "r1")' = "static"
      ]_vars


\* C11: cast rule of the README. A Link constructed without forceStatic is
\* bound to the static cast function exactly when the type of the Signal is
\* not a strict ancestor of the type of the Slot, and to the dynamic cast
\* function when it is one.
C11_ReadmeCastRule ==
    [][\A s \in Signals, r \in Slots :
          /\ lastOp'.op = "connect"
          /\ sigLinks[s][r] = NoLink
          /\ Connect(s, r, FALSE)
          => LET E == sigType[s]
                 R == slotType[r]
                 EAncR == /\ ~SameType(E, R)
                          /\ TypeDef_name(E) \in AncestorNames(R)
             IN BoundFn(s, r)' = IF EAncR THEN "dynamic" ELSE "static"
      ]_vars

\* C12: checked-path drop. A slot method is never called through a Link made
\* without forceStatic with a message whose class is neither the type of the
\* Slot nor a class derived from it (the Links of Spec are made without
\* forceStatic).
C12_CheckedDrop ==
    \A i \in 1..Len(calls) :
        calls[i].link # NoLink => Accepts(calls[i].slot, calls[i].msg)


\* The Links, the directories and the queue are as before the operation.
NoEffect == UNCHANGED core /\ ub' = {} /\ purged' = 0 /\ made' = 0

\* C13: dynamic cast function and direct call. Calling a Slot directly
\* (operator()) calls the slot method if and only if the message is of the
\* type of the Slot or of a class derived from it, with no Link (nullptr); a
\* message of another class is dropped and nothing changes. processNext
\* through a Link bound to the dynamic cast function calls the slot method
\* under the same condition and otherwise only removes the entry.
C13_CheckedDispatch ==
    [][/\ \A r \in Slots, m \in CastMsgs, h \in CastActs :
            lastOp'.op = "invoke" /\ Invoke(r, m, h) =>
                IF Accepts(r, m)
                THEN calls' = <<[slot |-> r, msg |-> m, link |-> NoLink,
                                 cast |-> "dynamic"]>>
                ELSE calls' = <<>> /\ NoEffect
       /\ \A h \in HandlerActs :
            /\ lastOp'.op = "processNext"
            /\ queue # <<>>
            /\ linkObj[queue[Len(queue)].link].fn = "dynamic"
            /\ ProcessNext(h)
            => LET e == queue[Len(queue)]
                   r == linkObj[e.link].slot
               IN IF Accepts(r, e.msg)
                  THEN calls' = <<[slot |-> r, msg |-> e.msg, link |-> e.link,
                                   cast |-> "dynamic"]>>
                  ELSE /\ calls' = <<>>
                       /\ Len(queue') = Len(queue) - 1
                       /\ UNCHANGED <<sigLinks, slotLinks, linkAlive, linkObj>>
                       /\ ub' = {}
      ]_vars

\* A Slot has been called directly with a message that is not of its type:
\* the slot method has not run.
C13_Witness ==
    /\ lastOp.op = "invoke"
    /\ calls = <<>>
    /\ ub = {}

\* C14: static cast function. The static cast function of a Slot tests no
\* type: it calls the slot method for every message it is given, of whatever
\* class, when called directly and when called by processNext through a Link
\* bound to it.
C14_UncheckedDispatch ==
    [][/\ \A r \in Slots, m \in CastMsgs \ {Null}, h \in CastActs :
            lastOp'.op = "invokeStatic" /\ InvokeStatic(r, m, h) =>
                calls' = <<[slot |-> r, msg |-> m, link |-> NoLink,
                            cast |-> "static"]>>
       /\ \A h \in HandlerActs :
            /\ lastOp'.op = "processNext"
            /\ queue # <<>>
            /\ linkObj[queue[Len(queue)].link].fn = "static"
            /\ queue[Len(queue)].msg # Null
            /\ ProcessNext(h)
            => LET e == queue[Len(queue)]
               IN calls' = <<[slot |-> linkObj[e.link].slot, msg |-> e.msg,
                              link |-> e.link, cast |-> "static"]>>
      ]_vars

\* The static cast function has called the slot method with a message that
\* is not of the type of the Slot.
C14_Witness ==
    /\ lastOp.op \in {"invokeStatic", "processNext"}
    /\ Len(calls) = 1
    /\ calls[1].cast = "static"
    /\ ~Accepts(calls[1].slot, calls[1].msg)


\* C15: one entry per call. processNext extracts at most one entry (the
\* oldest) and calls at most one slot method, and it returns true exactly
\* when the queue is not empty once the slot method has run, the entries the
\* slot method has emitted included; so the queue is empty when processNext
\* returns false.
C15_OnePerCall ==
    /\ popped \in {0, 1}
    /\ lastOp.op = "processNext" =>
          /\ Len(calls) <= 1
          /\ lastOp.ret <=> queue # <<>>

\* processNext has delivered the only entry of the queue and returns true,
\* for the entry that the slot method has emitted.
C15_Witness ==
    /\ lastOp.op = "processNext"
    /\ lastOp.ret
    /\ Len(calls) = 1
    /\ Len(queue) = 1
    /\ queue[1].seq = 1
    /\ queue[1].msg = calls[1].msg
    /\ purged = 0


\* C16 as claimed: processNext called on an empty queue does not return
\* normally, it reports an error.
C16_EmptyThrows ==
    [][\A h \in CastActs :
          lastOp'.op = "processNext" /\ queue = <<>> /\ ProcessNext(h)
              => lastOp'.threw
      ]_vars

\* C16 as amended: processNext called on an empty queue returns false, throws
\* nothing and changes nothing; it is Emitted::get, called directly on an
\* empty queue, that throws (and changes nothing).
C16_EmptyReturnsFalse ==
    [][/\ \A h \in CastActs :
            lastOp'.op = "processNext" /\ ProcessNext(h) =>
                /\ ~lastOp'.threw
                /\ queue = <<>> => ~lastOp'.ret /\ calls' = <<>> /\ NoEffect
       /\ lastOp'.op = "get" /\ EmittedGet =>
            /\ lastOp'.threw <=> queue = <<>>
            /\ queue = <<>> => NoEffect
      ]_vars

\* processNext has been called on an empty queue and has returned false.
C16_Witness ==
    /\ lastOp.op = "processNext"
    /\ ~lastOp.ret
    /\ ~lastOp.threw
    /\ popped = 0
    /\ queue = <<>>


\* C17: emit on a Signal that has no Link has no effect: the queue is as it
\* was, the notifier is not called and no slot method runs.
C17_EmitNoLinks ==
    [][\A s \in Signals, m \in Emitted :
          lastOp'.op = "emit" /\ ConnectedTo(s) = {} /\ Emit(s, m) =>
              /\ NoEffect
              /\ notified' = <<>>
              /\ calls' = <<>>
      ]_vars

\* emit has been called on a Signal without Links while other Signals are
\* connected and a notifier is set: nothing is queued, nobody is notified.
C17_Witness ==
    /\ lastOp.op = "emit"
    /\ queue = <<>>
    /\ notified = <<>>
    /\ notifier # Null
    /\ linkAlive # {}

\* C18: fan-out order. One emit queues its entries in the order in which the
\* Links were registered with the Signal by connect (the Link registered
\* first is queued first, hence delivered first), wherever the Slots are in
\* memory.
C18_RegistrationOrder ==
    [][\A s \in Signals, m \in Emitted :
          lastOp'.op = "emit" /\ notifier = Null /\ Emit(s, m) =>
              LET n == Len(regOrder[s])
              IN /\ Len(queue') = Len(queue) + n
                 /\ \A i \in 1..n :
                       queue'[n + 1 - i].link = sigLinks[s][regOrder[s][i]]
      ]_vars

\* C19: emit snapshot. emit queues exactly one entry for each Link that was
\* connected to the Signal when emit was called, whatever the notifier called
\* during the emit connects or disconnects.
C19_EmitSnapshot ==
    [][\A s \in Signals, m \in Emitted :
          lastOp'.op = "emit" /\ Emit(s, m) /\ ub' = {} =>
              LET n == Len(queue') - Len(queue)
              IN /\ n = Cardinality(ConnectedTo(s))
                 /\ \A r \in ConnectedTo(s) :
                       Cardinality({i \in 1..n :
                           queue'[i].link = sigLinks[s][r]}) = 1
      ]_vars

\* C20: notifier. Every entry added to the queue is followed by exactly one
\* call of the notifier that is set at that time, which sees the entry in the
\* queue; a notifier that is set replaces the one before, and with no
\* notifier set nobody is called.
C20_Notifier ==
    [][/\ ~crashed' /\ lastOp'.op \in {"emit", "processNext"} =>
            LET before == IF lastOp'.op = "emit" THEN Len(queue)
                          ELSE Len(queue) - popped'
                n == Len(queue') - before
            IN IF notifier = Null THEN notified' = <<>>
               ELSE /\ Len(notified') = n
                    /\ \A i \in 1..n :
                          notified'[i] = [cb |-> notifier, len |-> before + i]
       /\ \A cb \in Notifiers \cup {Null} :
            lastOp'.op = "setNotifier" /\ SetNotifier(cb) =>
                notifier' = cb /\ notified' = <<>> /\ queue' = queue
      ]_vars

\* One emit has queued two entries and the notifier has been called after
\* each, seeing one more entry the second time.
C20_Witness ==
    /\ lastOp.op = "emit"
    /\ Len(notified) = 2
    /\ notified[1].cb = notifier
    /\ notified[2].len = notified[1].len + 1
    /\ Len(queue) = notified[2].len


\* Connections, emissions and deliveries while Links, Signals and Slots are
\* destroyed.
NextLife ==
    \/ \E s \in sigAlive, r \in slotAlive : Connect(s, r, FALSE)
    \/ \E s \in sigAlive, r \in slotAlive : Disconnect(s, r)
    \/ \E s \in sigAlive : Emit(s, "ma")
    \/ ProcessNext([kind |-> "none", sig |-> Null])
    \/ \E l \in linkAlive : DeleteLink(l)
    \/ \E s \in sigAlive : DestroySignal(s)
    \/ \E r \in slotAlive : DestroySlot(r)
    \/ Crash

SpecLife == Init /\ [][NextLife]_vars

\* C21: no Link outlives an endpoint. Every Link that exists has a Signal and
\* a Slot that exist; the destruction of a Signal or of a Slot destroys every
\* Link that was made for it, and nothing of those Links is left in the
\* other endpoints or in the queue.
C21_NoLinkOutlivesEndpoint ==
    /\ \A l \in linkAlive :
          /\ linkObj[l].signal \in sigAlive
          /\ linkObj[l].slot \in slotAlive
    /\ \A i \in 1..Len(queue) :
          queue[i].link # NoLink => queue[i].link \in linkAlive
    /\ \A s \in Signals, r \in Slots :
          sigLinks[s][r] # NoLink => r \in slotAlive
    /\ \A r \in Slots : \A l \in slotLinks[r] : linkObj[l].signal \in sigAlive

\* C22: at most one Link per pair. No two Links that exist have the same
\* Signal and the same Slot, and the set of a Slot never holds two Links of
\* one Signal.
C22_OneLinkPerPair ==
    /\ \A l1, l2 \in linkAlive :
          /\ linkObj[l1].signal = linkObj[l2].signal
          /\ linkObj[l1].slot = linkObj[l2].slot
          => l1 = l2
    /\ \A r \in Slots : \A l1, l2 \in slotLinks[r] :
          linkObj[l1].signal = linkObj[l2].signal => l1 = l2


\* The two directories of names: every Signal and Slot is named, renamed and
\* unnamed, and Links are made through the names.
NextDir ==
    \/ \E s \in Signals, n \in Names \cup {NoName} : SetSignalName(s, n)
    \/ \E r \in Slots, n \in Names \cup {NoName} : SetSlotName(r, n)
    \/ \E a, b \in Names : ConnectN(a, b, FALSE)

SpecDir == Init /\ [][NextDir]_vars

\* C23: renaming. setName(n) takes the name the endpoint had out of its
\* directory and then registers n if n is not empty; after setName("") the
\* endpoint has no name and its old name is not found, so that a connect
\* through a name that is not found makes no Link and returns false.
C23_Renaming ==
    [][/\ \A s \in Signals, n \in Names \cup {NoName} :
            lastOp'.op = "setName" /\ SetSignalName(s, n) =>
                /\ sigName'[s] = n
                /\ n # NoName => signalMap'[n] = s
                /\ \A o \in Names :
                      o # n => signalMap'[o] =
                                   IF o = sigName[s] THEN Null ELSE signalMap[o]
                /\ UNCHANGED <<slotName, slotMap, sigLinks, slotLinks, queue>>
       /\ \A r \in Slots, n \in Names \cup {NoName} :
            lastOp'.op = "setName" /\ SetSlotName(r, n) =>
                /\ slotName'[r] = n
                /\ n # NoName => slotMap'[n] = r
                /\ \A o \in Names :
                      o # n => slotMap'[o] =
                                   IF o = slotName[r] THEN Null ELSE slotMap[o]
                /\ UNCHANGED <<sigName, signalMap, sigLinks, slotLinks, queue>>
       /\ \A a, b \in Names :
            /\ lastOp'.op = "connectN"
            /\ signalMap[a] = Null \/ slotMap[b] = Null
            /\ ConnectN(a, b, FALSE)
            => ~lastOp'.ret /\ made' = 0 /\ UNCHANGED core
      ]_vars

\* A Signal that was named and connected through its name has been unnamed:
\* its old name is not found any more.
C23_Witness ==
    /\ lastOp.op = "setName"
    /\ \E s \in Signals :
          /\ sigName[s] = NoName
          /\ ConnectedTo(s) # {}
          /\ \A n \in Names : signalMap[n] # s
    /\ \E n \in Names : signalMap[n] = Null

\* C24: last writer wins. When a name that is registered for one endpoint is
\* given to another endpoint of the same kind, the name is found to be the
\* other endpoint, and no error is raised.
C24_LastWriterWins ==
    [][/\ \A s \in Signals, n \in Names :
            /\ lastOp'.op = "setName"
            /\ signalMap[n] \notin {Null, s}
            /\ SetSignalName(s, n)
            => signalMap'[n] = s /\ ~lastOp'.threw /\ ub' = {}
       /\ \A r \in Slots, n \in Names :
            /\ lastOp'.op = "setName"
            /\ slotMap[n] \notin {Null, r}
            /\ SetSlotName(r, n)
            => slotMap'[n] = r /\ ~lastOp'.threw /\ ub' = {}
      ]_vars

\* Two Signals have been given the same name: the name is found to be one of
\* them, and the other one still reports it.
C24_Witness ==
    /\ lastOp.op = "setName"
    /\ \E s, t \in Signals, n \in Names :
          s # t /\ sigName[s] = n /\ sigName[t] = n /\ signalMap[n] = s

\* C25: name uniqueness. No two Signals that exist report the same name
\* unless it is empty, and every Signal that exists and reports a name is the
\* one that is found under this name.
C25_UniqueNames ==
    /\ \A s, t \in sigAlive :
          sigName[s] # NoName /\ sigName[s] = sigName[t] => s = t
    /\ \A s \in sigAlive :
          sigName[s] # NoName => AnySignal_get(World, sigName[s]) = s


\* Actions are constructed and register their Signals and Slots; Links are
\* made through the qualified names.
NextAction ==
    \/ \E a \in Actions, n \in ActionNames : NewAction(a, n)
    \/ \E a \in Actions, n \in Locals, s \in Signals : AddSignal(a, n, s)
    \/ \E a \in Actions, n \in Locals, r \in Slots : AddSlot(a, n, r)
    \/ \E a, b \in Names : ConnectN(a, b, FALSE)

SpecAction == Init /\ [][NextAction]_vars

\* C26: the construction of an Action with a name that is registered in the
\* map of Actions raises an error and leaves the Action of that name in the
\* map; with a name that is not registered, the Action is registered.
C26_DuplicateAction ==
    [][\A a \in Actions, n \in ActionNames :
          lastOp'.op = "newAction" /\ NewAction(a, n) =>
              IF actionMap[n] # Null
              THEN lastOp'.threw /\ UNCHANGED core
              ELSE /\ ~lastOp'.threw
                   /\ actionMap' = [actionMap EXCEPT ![n] = a]
                   /\ actName' = [actName EXCEPT ![a] = n]
      ]_vars

\* The construction of a second Action with the name of the first one has
\* raised the error.
C26_Witness ==
    /\ lastOp.op = "newAction"
    /\ lastOp.threw
    /\ \E n \in ActionNames : actionMap[n] # Null

\* C27: Action::add(name, signal) throws when a Signal is registered with
\* that name, and registers nothing.
C27_DuplicateSignal ==
    [][\A a \in Actions, n \in Locals, s \in Signals :
          /\ lastOp'.op = "addSignal"
          /\ AnySignal_get(World, Qualify(actName[a], n)) # Null
          /\ AddSignal(a, n, s)
          => lastOp'.threw /\ UNCHANGED core
      ]_vars


\* C28: order of the destruction of a Link. The destructor erases the queue
\* entries of the Link, then unregisters the Link from its Signal, then from
\* its Slot; when it unregisters the Link from an endpoint, no queue entry
\* references the Link.
C28_DtorOrder ==
    /\ Len(steps) % 3 = 0
    /\ \A i \in 1..Len(steps) :
          /\ steps[i].act = CASE i % 3 = 1 -> "erase"
                              [] i % 3 = 2 -> "signal"
                              [] OTHER -> "slot"
          /\ steps[i].refs = 0
    /\ lastOp.op = "delete" => Len(steps) = 3

\* A Link with entries in the queue has been deleted.
C28_Witness ==
    /\ lastOp.op = "delete"
    /\ purged > 0
    /\ Len(steps) = 3


\* C29: isSameOrSubtypeOf. For the TypeDef of a Signal as this type and the
\* TypeDef of a Slot as the argument, the function returns true exactly when
\* this type is the argument or one of its descendants.
C29_SameOrSubtype ==
    \A s \in Signals, r \in Slots :
        isSameOrSubtypeOf(sigType[s], slotType[r])
            <=> \/ SameType(sigType[s], slotType[r])
                \/ TypeDef_name(slotType[r]) \in AncestorNames(sigType[s])


\* main's test of the Action network: Ping and Pong are constructed and
\* connected, the ball is started and the queue is processed until it is
\* empty; then Pong2 is added and the ball is started again.
InitNet ==
    /\ Constructed([s \in Signals |-> SignalType(s)], [r \in Slots |-> SlotType(r)])
    /\ pongs = <<"Pong">>
    /\ pc = "ready"

NextNet ==
    \/ \E n \in 1..MaxCount \cup {TestCount} : NetStart(n)
    \/ NetLoop
    \/ NetAddPong2

\* main runs the loop until processNext returns false.
SpecNet == InitNet /\ [][NextNet]_vars /\ WF_vars(NetLoop)

\* C30: termination of the ping-pong network. With Ping connected to one or
\* two Pongs and back, the loop while( processNext() ) that follows
\* start(ball, maxCount), maxCount >= 1, ends, and the queue is empty then.
C30_NetTerminates ==
    (pc = "loop") ~> (pc = "done" /\ queue = <<>>)

\* The loop has ended in the network with two Pongs, after the ball has
\* been at Ping maxCount times or more.
C30_Witness ==
    /\ pc = "done"
    /\ queue = <<>>
    /\ Len(pongs) = 2
    /\ ball.maxCount = MaxCount
    /\ ball.totCount >= ball.maxCount
    /\ ball.pongCnt > ball.maxCount


\* C31: counts of the ping-pong network. When the loop has ended, the Pongs
\* have received the ball once per Pong for each of the maxCount emissions of
\* Ping; with one Pong, Ping has received it maxCount times; with two Pongs
\* and main's maxCount of 15, pingCnt is 15 and pongCnt is 30.
C31_NetCounts ==
    pc = "done" =>
        /\ ball.pongCnt = Len(pongs) * ball.maxCount
        /\ Len(pongs) = 1 => ball.pingCnt = ball.maxCount
        /\ Len(pongs) = 2 /\ ball.maxCount = TestCount =>
              ball.pingCnt = 15 /\ ball.pongCnt = 30

\* main's second run has ended: two Pongs, maxCount 15.
C31_Witness ==
    /\ pc = "done"
    /\ queue = <<>>
    /\ Len(pongs) = 2
    /\ ball.maxCount = TestCount
    /\ ball.pingCnt = TestCount
    /\ ball.pongCnt = 2 * TestCount


\* Messages are emitted and delivered while Links are made and deleted.
NextRefs ==
    \/ \E s \in Signals, r \in Slots : Connect(s, r, FALSE)
    \/ \E s \in Signals, m \in Emitted : Emit(s, m)
    \/ ProcessNext([kind |-> "none", sig |-> Null])
    \/ \E l \in linkAlive : DeleteLink(l)
    \/ Crash

SpecRefs == Init /\ [][NextRefs]_vars

\* The number of Message::Ptr to the message m that the entries of the queue
\* q hold.
QueueRefs(q, m) == Cardinality({i \in 1..Len(q) : q[i].msg = m})

\* C32: the references of the queue to a message. Each entry holds one
\* reference to its message; the delivery of an entry releases the reference
\* of this entry only and hands the message of the entry to the slot method;
\* the deletion of a Link releases the references of the entries of this
\* Link only; and when the queue is drained or no Link exists the queue holds
\* no reference.
C32_MessageRefs ==
    [][/\ /\ lastOp'.op = "processNext"
          /\ queue # <<>>
          /\ ProcessNext([kind |-> "none", sig |-> Null])
          => LET e == queue[Len(queue)]
             IN /\ \A m \in Msgs :
                      QueueRefs(queue', m) =
                          QueueRefs(queue, m) - (IF m = e.msg THEN 1 ELSE 0)
                /\ \A i \in 1..Len(calls') : calls'[i].msg = e.msg
       /\ \A l \in linkAlive :
            lastOp'.op = "delete" /\ DeleteLink(l) =>
                \A m \in Msgs :
                    QueueRefs(queue', m) = QueueRefs(queue, m) -
                        Cardinality({i \in 1..Len(queue) :
                            queue[i].msg = m /\ queue[i].link = l})
       /\ /\ ~crashed'
          /\ \/ linkAlive' = {}
             \/ (lastOp'.op = "processNext" /\ ~lastOp'.ret)
          => \A m \in Msgs : QueueRefs(queue', m) = 0
      ]_vars

\* An entry has been delivered and another entry of the same message is in
\* the queue: the message is still owned by the queue.
C32_Witness ==
    /\ lastOp.op = "processNext"
    /\ Len(calls) = 1
    /\ \E i \in 1..Len(queue) : queue[i].msg = calls[1].msg


\* The names found on the parent chain of the type t, t included.
ChainNames(t) == {TypeDef_name(t)} \cup AncestorNames(t)

C34_CrossRefs ==
    \A s \in Signals, r \in Slots, l \in Links :
        (s \in sigAlive /\ r \in slotAlive) =>
            (sigLinks[s][r] = l <=>
                (l \in slotLinks[r] /\ linkObj[l].signal = s
                                   /\ linkObj[l].slot = r))


\* C35: the signal, the slot and the slot function of a Link are those of
\* its construction for as long as the Link exists, and connect with
\* forceStatic on a pair whose Link is bound to the dynamic cast function
\* returns true, constructs no Link and leaves the Link on the dynamic cast
\* function.
C35_FixedAtConstruction ==
    [][~crashed' =>
          /\ \A l \in linkAlive :
                l \in linkAlive' => linkObj'[l] = linkObj[l]
          /\ \A s \in Signals, r \in Slots :
                (/\ lastOp'.op = "connect"
                 /\ sigLinks[s][r] # NoLink
                 /\ BoundFn(s, r) = "dynamic"
                 /\ Connect(s, r, TRUE)) =>
                    /\ lastOp'.ret
                    /\ made' = 0
                    /\ sigLinks'[s][r] = sigLinks[s][r]
                    /\ linkObj'[sigLinks[s][r]].fn = "dynamic"
      ]_vars

\* connect has returned true without constructing a Link while a Link bound
\* to the dynamic cast function connects a pair.
C35_Witness ==
    /\ lastOp.op = "connect"
    /\ lastOp.ret
    /\ made = 0
    /\ \E s \in Signals, r \in Slots :
          sigLinks[s][r] # NoLink /\ BoundFn(s, r) = "dynamic"

\* Endpoints that are named, connected through their names and destroyed.
NextGone ==
    \/ \E s \in sigAlive, n \in Names : SetSignalName(s, n)
    \/ \E r \in slotAlive, n \in Names : SetSlotName(r, n)
    \/ \E a, b \in Names : ConnectN(a, b, FALSE)
    \/ \E s \in sigAlive : DestroySignal(s)
    \/ \E r \in slotAlive : DestroySlot(r)
    \/ Crash

SpecGone == Init /\ [][NextGone]_vars

\* C36: destroyed endpoints are not found. No name of the Signals' directory
\* resolves to a Signal that has been destroyed, and no name of the Slots'
\* directory resolves to a Slot that has been destroyed.
C36_DestroyedNotFound ==
    \A n \in Names :
        /\ AnySignal_get(World, n) # Null => AnySignal_get(World, n) \in sigAlive
        /\ AnySlot_get(World, n) # Null => AnySlot_get(World, n) \in slotAlive

\* C37: rename frame. setName on the Signal s, or on the Slot r, with the
\* name n leaves every entry other than n that resolves to another endpoint
\* as it was.
C37_RenameFrame ==
    [][/\ \A s \in Signals, n \in Names \cup {NoName} :
            lastOp'.op = "setName" /\ SetSignalName(s, n) =>
                \A o \in Names \ {n} :
                    signalMap[o] \notin {Null, s} =>
                        signalMap'[o] = signalMap[o]
       /\ \A r \in Slots, n \in Names \cup {NoName} :
            lastOp'.op = "setName" /\ SetSlotName(r, n) =>
                \A o \in Names \ {n} :
                    slotMap[o] \notin {Null, r} =>
                        slotMap'[o] = slotMap[o]
      ]_vars

\* The operation op ends in the state w, with a queue of MaxDepth entries at
\* most.
Deep(w, op) ==
    /\ ~crashed
    /\ ~w.full
    /\ Len(w.queue) <= MaxDepth
    /\ Applied(w, op)
    /\ UNCHANGED <<pongs, pc>>

\* Link::connect(signal, slot).
DeepConnect(s, r) == Deep(Link_connect(World, s, r, FALSE), "connect")

\* signal.emit(msg).
DeepEmit(s, m) ==
    /\ ClassIsA(ClassOf(m), sigType[s])
    /\ Deep(AnySignal_emit(World, s, m), "emit")

\* Message::processNext() with a slot method that returns or closes the Link
\* it is given.
DeepProcessNext(h) ==
    /\ HeadSlot(World) # Null => HandlerCan(Emitted_get(World), HeadSlot(World),
                                            Emitted_back(World).link, h)
    /\ queue = <<>> => h.kind = "none"
    /\ Deep(processNext(World, h), "processNext")

\* delete link.
DeepDelete(l) == Deep(Link_dtor(World, l), "delete")

\* What the slot methods of these runs do.
Closing == {h \in HandlerActs : h.kind \in {"none", "close"}}

\* Entries of several Links wait while Links are closed, by the program and by
\* the slot methods.
NextPurge ==
    \/ \E s \in Signals, r \in Slots : DeepConnect(s, r)
    \/ \E s \in Signals, m \in Emitted : DeepEmit(s, m)
    \/ \E h \in Closing : DeepProcessNext(h)
    \/ \E l \in linkAlive : DeepDelete(l)
    \/ Crash

SpecPurge == Init /\ [][NextPurge]_vars

\* The messages and the links of the entries of the queue q, in the order of
\* the list.
Shape(q) == [i \in 1..Len(q) |-> [msg |-> q[i].msg, link |-> q[i].link]]

\* C38: purge frame. The deletion of the Link l takes out of the queue the
\* entries whose link is l, all of them and no other, and the entries that
\* stay have their message, their link and their order.
C38_PurgeFrame ==
    [][\A l \in linkAlive :
          lastOp'.op = "delete" /\ DeepDelete(l) =>
              /\ Shape(queue') =
                     Shape(SelectSeq(queue, LAMBDA e : e.link # l))
              /\ purged' = Len(SelectSeq(queue, LAMBDA e : e.link = l))
              /\ \A i, j \in 1..Len(queue') :
                    i < j => queue'[i].seq > queue'[j].seq
      ]_vars

\* A Link has been deleted with entries in the queue, and two entries that
\* differ have stayed.
C38_Witness ==
    /\ lastOp.op = "delete"
    /\ purged >= 1
    /\ Len(queue) >= 2
    /\ Shape(queue)[1] # Shape(queue)[2]


\* C39: a slot method closes the Link it is given. When processNext forwards
\* the oldest entry through the Link l and the slot method deletes l, the
\* entries of l that waited are taken out of the queue, l is gone, the other
\* entries stay with their message, link and order, and processNext returns
\* whether entries are left.
C39_CloseInHandler ==
    [][\A h \in Closing :
          (/\ h.kind = "close"
           /\ lastOp'.op = "processNext"
           /\ queue # <<>>
           /\ DeepProcessNext(h)
           /\ Len(calls') = 1) =>
              LET l == Emitted_back(World).link
                  rest == SubSeq(queue, 1, Len(queue) - 1)
              IN /\ calls'[1].link = l
                 /\ l \notin linkAlive'
                 /\ Shape(queue') =
                        Shape(SelectSeq(rest, LAMBDA e : e.link # l))
                 /\ purged' = Len(SelectSeq(rest, LAMBDA e : e.link = l))
                 /\ lastOp'.ret = (queue' # <<>>)
                 /\ ~lastOp'.threw
      ]_vars

\* A slot method has closed the Link that delivered the message: an entry of
\* this Link has been purged and two entries of other Links are left.
C39_Witness ==
    /\ lastOp.op = "processNext"
    /\ lastOp.ret
    /\ Len(calls) = 1
    /\ calls[1].link \notin linkAlive
    /\ purged >= 1
    /\ Len(queue) >= 2

\* The loop of a destructor has not ended.
Spins == \E i \in 1..Len(steps) : steps[i].act = "spin"

\* C40: the destructors' loops end. When a Signal or a Slot is destroyed
\* while every other Signal and Slot exists, the loop of its destructor ends:
\* every turn has run the three statements of ~Link for a Link that existed,
\* without undefined behaviour, and the collection of the endpoint is empty.
C40_DtorLoopsEnd ==
    (/\ lastOp.op \in {"destroySignal", "destroySlot"}
     /\ Cardinality(sigAlive) + Cardinality(slotAlive) =
            Cardinality(Signals) + Cardinality(Slots) - 1) =>
        /\ ~Spins
        /\ ub = {}
        /\ Len(steps) % 3 = 0
        /\ \A i \in 1..Len(steps) :
              steps[i].act = <<"erase", "signal", "slot">>[((i - 1) % 3) + 1]
        /\ \A s \in Signals \ sigAlive, r \in Slots : sigLinks[s][r] = NoLink
        /\ \A r \in Slots \ slotAlive : slotLinks[r] = {}

\* A Slot has been destroyed while all the other endpoints exist and the loop
\* of its destructor has deleted two Links.
C40_Witness ==
    /\ lastOp.op = "destroySlot"
    /\ Cardinality(slotAlive) = Cardinality(Slots) - 1
    /\ sigAlive = Signals
    /\ Len(steps) = 6
    /\ ~Spins

====
